---------------------------- MODULE Spec2Model ----------------------------
(***************************************************************************)
(* Plan-and-Execute research agent of news-summary-agent                   *)
(* (backend/src/services/research_agent.py): planner, executor, tool       *)
(* registry and synthesizer, as a state machine.                           *)
(*                                                                         *)
(* Time is counted in whole hours since datetime.min; a datetime that      *)
(* would fall before it raises OverflowError, as in Python.                *)
(***************************************************************************)
EXTENDS Integers, Sequences, FiniteSets, TLC

VARIABLES
    llm,                \* self.llm is set (an API key is configured)
    pc,                 \* position of the request being served
    mode,               \* entry point: "research" | "execute" | "none"
    user_query,         \* research(user_query)
    plan,               \* the plan dict handed to execute_plan (shared, mutable)
    i,                  \* 1-based index of the step the executor is at
    execution_results,  \* the trace
    accumulated_data,   \* the Accumulator
    call,               \* the tool invocation in flight (<<>> when none): the step's
                        \* index, the tool, the params passed, the params the step gave
    calls,              \* every tool invocation made by this execute_plan call
    inflight,           \* number of tool invocations in flight
    outcome,            \* how the latest tool call of this execute_plan call ended
    memo,               \* the answers the tools have given, when they are deterministic
    earlier,            \* the outcome of an earlier execute_plan call on this plan object
    llm_call,           \* what the synthesizer's LLM call did ("" when none was made)
    final_answer,       \* synthesizer output
    results_summary,    \* the per-step entries of the synthesis prompt
    llm_reply,          \* what the planning LLM call did in this request
    raised_by,          \* the function an exception escaped from ("" when none)
    store,              \* the tags and rss_feeds tables with their association rows
    response            \* the last answer of a tag or feed endpoint

\* the research agent's state
agentVars == <<llm, pc, mode, user_query, plan, i, execution_results,
               accumulated_data, call, calls, inflight, final_answer,
               results_summary, llm_reply, raised_by, outcome, memo, earlier,
               llm_call>>

\* the tag and feed tables and the last answer of their endpoints
dbVars == <<store, response>>

vars == <<agentVars, dbVars>>

\* the request's context, which the executor only reads
reqVars == <<llm, mode, user_query, llm_reply>>

\* the synthesizer's output
outVars == <<final_answer, results_summary>>

\* what only some steps touch
runVars == <<outcome, memo, earlier, llm_call>>

-----------------------------------------------------------------------------
(* Bounds of the model *)

\* longest hand-built plan posted to /execute-plan
MaxPlanLen == 3

\* the current instant, in hours since datetime.min (about the year 2026)
NowHours == 17760000

-----------------------------------------------------------------------------
(* Dictionaries *)

EmptyDict == [x \in {} |-> 0]

Put(d, k, v) == [x \in (DOMAIN d) \cup {k} |-> IF x = k THEN v ELSE d[x]]

Del(d, k) == [x \in (DOMAIN d) \ {k} |-> d[x]]

\* d[to] = d.pop(from)
PopInto(d, from, to) == IF from \in DOMAIN d THEN Put(Del(d, from), to, d[from]) ELSE d

-----------------------------------------------------------------------------
(* Parameter values.  One record shape for every Python value:             *)
(*   k = "str"  a plain string s, or the text made of the words in words   *)
(*   k = "int"  the integer n                                              *)
(*   k = "ids"  the list of article ids                                    *)
(*   k = "list" the list of the strings in words                           *)
(*   k = "iso"  an ISO-8601 timestamp string of instant n                  *)
(*   k = "rel"  a relative time expression: s is its wording, n its number *)
(* raw tells how a string is written: "canon" (lower case, no surrounding  *)
(* blanks), "upper" (has upper-case letters), "padded" (surrounding blanks)*)

StrV(s) == [k |-> "str", s |-> s, n |-> 0, ids |-> <<>>, raw |-> "canon", words |-> <<>>]
IntV(n) == [k |-> "int", s |-> "", n |-> n, ids |-> <<>>, raw |-> "canon", words |-> <<>>]
IdsV(l) == [k |-> "ids", s |-> "", n |-> 0, ids |-> l, raw |-> "canon", words |-> <<>>]
IsoV(h) == [k |-> "iso", s |-> "", n |-> h, ids |-> <<>>, raw |-> "canon", words |-> <<>>]
TextV(q) == [k |-> "str", s |-> "", n |-> 0, ids |-> <<>>, raw |-> "canon", words |-> q]
ListV(l) == [k |-> "list", s |-> "", n |-> 0, ids |-> <<>>, raw |-> "canon", words |-> l]
RelV(s, n) == [k |-> "rel", s |-> s, n |-> n, ids |-> <<>>, raw |-> "canon", words |-> <<>>]

IsString(v) == v.k \in {"str", "iso", "rel"}

Take(l, n) == SubSeq(l, 1, IF Len(l) < n THEN Len(l) ELSE n)

-----------------------------------------------------------------------------
(* Relative time expressions *)

\* hours in one unit of a relative time expression; a month is 30 days
UnitHours(unit) ==
    CASE unit = "hour" -> 1
      [] unit = "day" -> 24
      [] unit = "week" -> 168
      [] unit = "month" -> 720

\* wordings matched by  (\d+)\s*(hour|day|week|month)s?\s*ago
AgoWordings == {"hour ago", "day ago", "week ago", "month ago"}

AgoUnit(s) ==
    CASE s = "hour ago" -> "hour"
      [] s = "day ago" -> "day"
      [] s = "week ago" -> "week"
      [] s = "month ago" -> "month"

\* datetime.now(timezone.utc) - delta, then .isoformat(): OverflowError below datetime.min
NowMinus(delta) ==
    IF NowHours - delta < 0
    THEN [raised |-> TRUE, v |-> StrV("")]
    ELSE [raised |-> FALSE, v |-> IsoV(NowHours - delta)]

\* time_str.lower().strip(): blanks around the text and upper-case letters go; a
\* timestamp as isoformat() writes it loses its upper-case 'T'
LowerStrip(v) == [v EXCEPT !.raw = IF v.k = "iso" THEN "lower" ELSE "canon"]

\* parse_relative_time(time_str): the string is lower-cased and stripped first
parse_relative_time(v) ==
    LET t == LowerStrip(v) IN
    CASE t.k = "rel" /\ t.s = "now" -> NowMinus(0)
      [] t.k = "rel" /\ t.s \in AgoWordings -> NowMinus(t.n * UnitHours(AgoUnit(t.s)))
      [] t.k = "rel" /\ t.s = "_hours_ago" -> NowMinus(t.n)
      [] OTHER -> [raised |-> FALSE, v |-> t]

\* datetime.fromisoformat(s) succeeds
IsoParsable(v) == v.k = "iso" /\ v.raw = "canon"

-----------------------------------------------------------------------------
(* Tool Registry *)

\* keys of self.tools
ToolNames ==
    {"search_articles", "get_article_details", "filter_by_source",
     "generate_summary", "analyze_perspectives", "compare_articles",
     "extract_topics", "get_trending", "categorize_bias", "get_by_timerange"}

\* keyword parameters without a default, per tool signature
RequiredParams(tool) ==
    CASE tool = "search_articles" -> {"query"}
      [] tool = "get_article_details" -> {"article_id"}
      [] tool = "filter_by_source" -> {"article_ids", "source_types"}
      [] tool = "generate_summary" -> {"article_id"}
      [] tool = "analyze_perspectives" -> {"article_ids"}
      [] tool = "compare_articles" -> {"article1_id", "article2_id"}
      [] tool = "extract_topics" -> {"article_ids"}
      [] tool = "get_trending" -> {}
      [] tool = "categorize_bias" -> {"article_ids"}
      [] tool = "get_by_timerange" -> {"start_date", "end_date"}

\* keyword parameters with a default
OptionalParams(tool) ==
    CASE tool = "search_articles" -> {"limit"}
      [] tool = "generate_summary" -> {"summary_type"}
      [] tool = "analyze_perspectives" -> {"focus"}
      [] tool = "get_trending" -> {"hours_back"}
      [] tool = "get_by_timerange" -> {"query"}
      [] OTHER -> {}

\* tool_func(**params) binds: no required parameter missing, no unexpected keyword
BindsOk(tool, params) ==
    /\ RequiredParams(tool) \subseteq DOMAIN params
    /\ DOMAIN params \subseteq RequiredParams(tool) \cup OptionalParams(tool)

\* what a tool returns: the success flag, the error text, and the article ids
\* of its payload (results / articles / article_ids / categorized)
\* an error text: its fixed wording and the name formatted into it ("" when none)
Err(text, name) == <<text, name>>
NoError == Err("", "")

Ok(l) == [present |-> TRUE, success |-> TRUE, error |-> NoError, ids |-> l, info |-> EmptyDict]
Fail(e) ==
    [present |-> TRUE, success |-> FALSE, error |-> Err(e, ""), ids |-> <<>>, info |-> EmptyDict]
NoResult ==
    [present |-> FALSE, success |-> FALSE, error |-> NoError, ids |-> <<>>, info |-> EmptyDict]

\* how the try body of a tool ends.  reply: what the collaborator did ("raise": it
\* raised, "none": it replied None, "error": it replied an error dict, "value": it
\* replied data); count: the articles it found, where the tool looks at that;
\* raised / result: the body raised (result then holds str(e)) or returned result;
\* open: the database sessions the tool opened and has not closed; tool: its name
Returns(reply, result, open) ==
    [tool |-> "", reply |-> reply, count |-> 0, raised |-> FALSE, result |-> result,
     open |-> open]
Raises(reply, e, open) ==
    [tool |-> "", reply |-> reply, count |-> 0, raised |-> TRUE, result |-> Fail(e),
     open |-> open]

\* faulty variant of Caught: the tool has no handler
Uncaught(body) == body

\* except Exception as e: return {'success': False, 'error': str(e)}
Caught(body) == [body EXCEPT !.raised = FALSE]

NoOutcome ==
    [tool |-> "", reply |-> "", count |-> 0, raised |-> FALSE, result |-> NoResult, open |-> 0]

\* db = SessionLocal(); db.query(...) raises; db.close() is not reached
StoreRaises == Raises("raise", "store error", 1)

\* the analysis agent catches its own errors and replies None; .get on it raises
NoneHasNoGet == Raises("none", "'NoneType' object has no attribute 'get'", 0)

\* lists of article ids the vector index and the article store may reply with
ResultLists == {<<>>, <<1>>, <<2, 3>>}

\* all sub-lists of l, order kept
RECURSIVE SubLists(_)
SubLists(l) ==
    IF l = <<>> THEN {<<>>}
    ELSE LET rest == SubLists(Tail(l)) IN rest \cup {<<Head(l)>> \o r : r \in rest}

\* vector_store.search_similar_articles swallows its own errors and returns []
search_articles_tool(params) == {Caught(Returns("value", Ok(l), 0)) : l \in ResultLists}

get_article_details_tool(params) ==
    {Caught(b) : b \in {StoreRaises,
                        Returns("none", Fail("Article not found"), 0),
                        Returns("value", Ok(<<>>), 0)}}

\* the categorized ids are ids of stored articles among article_ids whose source matches
filter_by_source_tool(params) ==
    {Caught(b) : b \in {StoreRaises}
                       \cup {Returns("value", Ok(l), 0) : l \in SubLists(params.article_ids.ids)}}

generate_summary_tool(params) ==
    {Caught(b) : b \in {Returns("none", Fail("Failed to generate summary"), 0),
                        Returns("value", Ok(<<>>), 0)}}

\* more than 10 ids, or fewer than 2 of them stored: an error reply from the analysis agent
\* analyze_multiple_perspectives: more ids than this are refused unread
MaxPerspectiveArticles == 10

\* analyze_multiple_perspectives: fewer stored articles than this are refused
MinPerspectiveArticles == 2

\* faulty variant of PerspectivesBody: any number of stored articles is analysed
PerspectivesBodyNoMinimum(n, k) ==
    IF n > MaxPerspectiveArticles
    THEN {Returns("error",
                  Fail("Maximum 10 articles allowed for multi-perspective analysis"), 0)}
    ELSE {[b EXCEPT !.count = k] : b \in {NoneHasNoGet, Returns("value", Ok(<<>>), 0)}}

\* n ids are supplied and k of them are ids of stored articles; the analysis agent
\* answers None when anything it calls raises, and the tool then fails on None.get
PerspectivesBody(n, k) ==
    IF n > MaxPerspectiveArticles
    THEN {Returns("error",
                  Fail("Maximum 10 articles allowed for multi-perspective analysis"), 0)}
    ELSE {[b EXCEPT !.count = k] : b \in
             {NoneHasNoGet,
              IF k < MinPerspectiveArticles
              THEN Returns("error",
                           Fail("Minimum 2 articles required for multi-perspective analysis"),
                           0)
              ELSE Returns("value", Ok(<<>>), 0)}}

analyze_perspectives_tool(params) ==
    LET n == Len(params.article_ids.ids) IN
    UNION {{Caught(b) : b \in PerspectivesBody(n, k)} : k \in 0..n}

\* an error reply (article not found) is truthy and has no comparison_text
compare_articles_tool(params) ==
    {Caught(b) : b \in {Returns("none", Fail("Comparison failed"), 0),
                        Raises("error", "'comparison_text'", 0),
                        Returns("value", Ok(<<>>), 0)}}

extract_topics_tool(params) ==
    {Caught(b) : b \in {StoreRaises, Returns("value", Ok(<<>>), 0)}}

\* analyze_trending_topics(hours_back, min_articles=3)
MinArticles == 3

\* _get_trending_tool(self, hours_back: int = 24)
DefaultHoursBack == 24

\* numbers of articles the store may hold in the window
WindowCounts == {2, 3}

\* the analysis agent's reply for n articles in the window, and what the tool makes
\* of it: the reply never carries article_ids, and without an LLM it is a mock
\* that has no analysis_text
TrendingBody(n, hours_back) ==
    [(IF n < MinArticles
      THEN Returns("error", Fail("Insufficient articles for analysis"), 0)
      ELSE IF llm
      THEN Returns("value",
                   [Ok(<<>>) EXCEPT !.info = [article_count |-> n, period |-> hours_back]], 0)
      ELSE Raises("value", "'analysis_text'", 0))
     EXCEPT !.count = n]

get_trending_tool(params) ==
    LET hours_back == IF "hours_back" \in DOMAIN params THEN params["hours_back"].n
                      ELSE DefaultHoursBack IN
    {Caught(b) : b \in {NoneHasNoGet} \cup {TrendingBody(n, hours_back) : n \in WindowCounts}}

categorize_bias_tool(params) ==
    {Caught(b) : b \in {StoreRaises, Returns("value", Ok(<<>>), 0)}}

\* datetime.fromisoformat stands after SessionLocal() and before db.close()
get_by_timerange_tool(params) ==
    {Caught(b) : b \in
        IF IsoParsable(params.start_date) /\ IsoParsable(params.end_date)
        THEN {StoreRaises} \cup {Returns("value", Ok(l), 0) : l \in ResultLists}
        ELSE {Raises("raise", "Invalid isoformat string", 1)}}

\* how  await tool_func(**params)  may end once the call is bound
ToolEnds(tool, params) ==
    CASE tool = "search_articles" -> search_articles_tool(params)
      [] tool = "get_article_details" -> get_article_details_tool(params)
      [] tool = "filter_by_source" -> filter_by_source_tool(params)
      [] tool = "generate_summary" -> generate_summary_tool(params)
      [] tool = "analyze_perspectives" -> analyze_perspectives_tool(params)
      [] tool = "compare_articles" -> compare_articles_tool(params)
      [] tool = "extract_topics" -> extract_topics_tool(params)
      [] tool = "get_trending" -> get_trending_tool(params)
      [] tool = "categorize_bias" -> categorize_bias_tool(params)
      [] tool = "get_by_timerange" -> get_by_timerange_tool(params)

ToolResults(tool, params) == {[o EXCEPT !.tool = tool] : o \in ToolEnds(tool, params)}

-----------------------------------------------------------------------------
(* Executor: parameter reconciliation *)

\* number of ids analyze_perspectives takes from the Accumulator
PerspectiveIds == 5

\* get_by_timerange: start / end are aliases of start_date / end_date
RenameTimerange(tool, params) ==
    IF tool = "get_by_timerange"
    THEN PopInto(PopInto(params, "start", "start_date"), "end", "end_date")
    ELSE params

\* generate_summary: type is an alias of summary_type
RenameSummary(tool, params) ==
    IF tool = "generate_summary" THEN PopInto(params, "type", "summary_type") ELSE params

ApplyParsed(params, key, parsed) ==
    IF parsed.raised THEN [raised |-> TRUE, params |-> params]
    ELSE [raised |-> FALSE, params |-> Put(params, key, parsed.v)]

\* params[key] = parse_relative_time(params[key]): the conversion stands inside the
\* generate_summary branch, so it runs for that tool only
ConvertDate(tool, r, key) ==
    IF ~r.raised /\ tool = "generate_summary" /\ key \in DOMAIN r.params
       /\ IsString(r.params[key])
    THEN ApplyParsed(r.params, key, parse_relative_time(r.params[key]))
    ELSE r

\* the alias renames and relative-time conversion done before the call;
\* raised: parse_relative_time raised, params as mutated up to then
ReconcileParams(tool, params) ==
    ConvertDate(tool,
                ConvertDate(tool,
                            [raised |-> FALSE,
                             params |-> RenameSummary(tool, RenameTimerange(tool, params))],
                            "start_date"),
                "end_date")

InjectPerspectives(params, acc) ==
    IF "article_ids" \in DOMAIN params THEN params
    ELSE IF "search_results" \in DOMAIN acc
         THEN Put(params, "article_ids", IdsV(Take(acc["search_results"], PerspectiveIds)))
    ELSE IF "article_ids" \in DOMAIN acc
         THEN Put(params, "article_ids", IdsV(Take(acc["article_ids"], PerspectiveIds)))
    ELSE params

\* faulty variant of InjectFilter: the ids of an earlier filter come first
InjectFilterFilteredFirst(params, acc) ==
    IF "article_ids" \in DOMAIN params THEN params
    ELSE IF "filtered_article_ids" \in DOMAIN acc
         THEN Put(params, "article_ids", IdsV(acc["filtered_article_ids"]))
    ELSE IF "timerange_articles" \in DOMAIN acc
         THEN Put(params, "article_ids", IdsV(acc["timerange_articles"]))
    ELSE IF "search_results" \in DOMAIN acc
         THEN Put(params, "article_ids", IdsV(acc["search_results"]))
    ELSE IF "article_ids" \in DOMAIN acc
         THEN Put(params, "article_ids", IdsV(acc["article_ids"]))
    ELSE params

InjectFilter(params, acc) ==
    IF "article_ids" \in DOMAIN params THEN params
    ELSE IF "timerange_articles" \in DOMAIN acc
         THEN Put(params, "article_ids", IdsV(acc["timerange_articles"]))
    ELSE IF "search_results" \in DOMAIN acc
         THEN Put(params, "article_ids", IdsV(acc["search_results"]))
    ELSE IF "article_ids" \in DOMAIN acc
         THEN Put(params, "article_ids", IdsV(acc["article_ids"]))
    ELSE params

\* faulty variant of InjectTopics: the ids of an earlier filter are not consulted
InjectTopicsUnfiltered(params, acc) ==
    IF "article_ids" \in DOMAIN params THEN params
    ELSE IF "timerange_articles" \in DOMAIN acc
         THEN Put(params, "article_ids", IdsV(acc["timerange_articles"]))
    ELSE IF "search_results" \in DOMAIN acc
         THEN Put(params, "article_ids", IdsV(acc["search_results"]))
    ELSE IF "article_ids" \in DOMAIN acc
         THEN Put(params, "article_ids", IdsV(acc["article_ids"]))
    ELSE params

InjectTopics(params, acc) ==
    IF "article_ids" \in DOMAIN params THEN params
    ELSE IF "filtered_article_ids" \in DOMAIN acc
         THEN Put(params, "article_ids", IdsV(acc["filtered_article_ids"]))
    ELSE IF "timerange_articles" \in DOMAIN acc
         THEN Put(params, "article_ids", IdsV(acc["timerange_articles"]))
    ELSE IF "search_results" \in DOMAIN acc
         THEN Put(params, "article_ids", IdsV(acc["search_results"]))
    ELSE IF "article_ids" \in DOMAIN acc
         THEN Put(params, "article_ids", IdsV(acc["article_ids"]))
    ELSE params

\* key present and its list non-empty
Filled(acc, key) == key \in DOMAIN acc /\ acc[key] # <<>>

\* faulty variant of InjectSummary: time-range ids before search results
InjectSummaryTimerangeFirst(params, acc) ==
    IF "article_id" \in DOMAIN params THEN params
    ELSE IF Filled(acc, "timerange_articles")
         THEN Put(params, "article_id", IntV(Head(acc["timerange_articles"])))
    ELSE IF Filled(acc, "search_results")
         THEN Put(params, "article_id", IntV(Head(acc["search_results"])))
    ELSE IF Filled(acc, "filtered_article_ids")
         THEN Put(params, "article_id", IntV(Head(acc["filtered_article_ids"])))
    ELSE IF Filled(acc, "article_ids")
         THEN Put(params, "article_id", IntV(Head(acc["article_ids"])))
    ELSE params

InjectSummary(params, acc) ==
    IF "article_id" \in DOMAIN params THEN params
    ELSE IF Filled(acc, "search_results")
         THEN Put(params, "article_id", IntV(Head(acc["search_results"])))
    ELSE IF Filled(acc, "timerange_articles")
         THEN Put(params, "article_id", IntV(Head(acc["timerange_articles"])))
    ELSE IF Filled(acc, "filtered_article_ids")
         THEN Put(params, "article_id", IntV(Head(acc["filtered_article_ids"])))
    ELSE IF Filled(acc, "article_ids")
         THEN Put(params, "article_id", IntV(Head(acc["article_ids"])))
    ELSE params

InjectParams(tool, params, acc) ==
    CASE tool = "analyze_perspectives" -> InjectPerspectives(params, acc)
      [] tool = "filter_by_source" -> InjectFilter(params, acc)
      [] tool = "extract_topics" -> InjectTopics(params, acc)
      [] tool = "generate_summary" -> InjectSummary(params, acc)
      [] OTHER -> params

InjectReconciled(tool, r, acc) ==
    IF r.raised THEN r
    ELSE [raised |-> FALSE, params |-> InjectParams(tool, r.params, acc)]

\* the params the tool is called with, or raised when reconciliation raised
PreparedParams(tool, params, acc) == InjectReconciled(tool, ReconcileParams(tool, params), acc)

\* the Accumulator after a tool's result
\* faulty variant of StoreResult: a successful step's data replace the Accumulator
StoreResultReplaces(acc, tool, result) ==
    IF ~result.success THEN acc
    ELSE CASE tool = "search_articles" -> Put(EmptyDict, "search_results", result.ids)
           [] tool = "get_by_timerange" ->
                  Put(Put(EmptyDict, "timerange_articles", result.ids), "article_ids",
                      result.ids)
           [] tool = "get_trending" -> Put(EmptyDict, "article_ids", result.ids)
           [] tool = "filter_by_source" ->
                  Put(Put(EmptyDict, "filtered_article_ids", result.ids), "article_ids",
                      result.ids)
           [] OTHER -> acc

StoreResult(acc, tool, result) ==
    IF ~result.success THEN acc
    ELSE CASE tool = "search_articles" -> Put(acc, "search_results", result.ids)
           [] tool = "get_by_timerange" ->
                  Put(Put(acc, "timerange_articles", result.ids), "article_ids", result.ids)
           [] tool = "get_trending" -> Put(acc, "article_ids", result.ids)
           [] tool = "filter_by_source" ->
                  Put(Put(acc, "filtered_article_ids", result.ids), "article_ids", result.ids)
           [] OTHER -> acc

-----------------------------------------------------------------------------
(* Executor: execute_plan *)

\* steps = plan.get('plan', plan.get('fallback_plan', []))
Steps(pl) ==
    IF "plan" \in DOMAIN pl THEN pl["plan"]
    ELSE IF "fallback_plan" \in DOMAIN pl THEN pl["fallback_plan"]
    ELSE <<>>

\* params = step_info.get('params', {})
StepParams(step_info) ==
    IF "params" \in DOMAIN step_info THEN step_info["params"] ELSE EmptyDict

\* params is the step's own dict: what the executor writes into it stays in the plan
WriteParams(pl, k, params) ==
    LET key == IF "plan" \in DOMAIN pl THEN "plan" ELSE "fallback_plan" IN
    IF "params" \in DOMAIN pl[key][k]
    THEN [pl EXCEPT ![key] = [@ EXCEPT ![k] = [@ EXCEPT !["params"] = params]]]
    ELSE pl

\* records appended to execution_results
UnknownToolRecord(step_info) ==
    [step |-> step_info["step"], tool |-> step_info["tool"], status |-> "error",
     error |-> Err("Unknown tool: ", step_info["tool"]), result |-> NoResult]

ExceptionRecord(step_info, e) ==
    [step |-> step_info["step"], tool |-> step_info["tool"], status |-> "error",
     error |-> Err(e, ""), result |-> NoResult]

ResultRecord(step_info, result) ==
    [step |-> step_info["step"], tool |-> step_info["tool"],
     status |-> IF result.success THEN "success" ELSE "error",
     error |-> NoError, result |-> result]

NoCall == <<>>

\* no earlier execute_plan call on the plan object
NoRun == [ran |-> FALSE, raised |-> FALSE, trace |-> <<>>]

\* faulty variant of EnterExecutePlan: the Accumulator outlives the call
EnterExecutePlanKeepsData(p) ==
    /\ plan' = p
    /\ i' = 1
    /\ execution_results' = <<>>
    /\ accumulated_data' = accumulated_data
    /\ call' = NoCall
    /\ calls' = <<>>
    /\ inflight' = 0
    /\ outcome' = NoOutcome

\* entry of execute_plan(p)
EnterExecutePlan(p) ==
    /\ plan' = p
    /\ i' = 1
    /\ execution_results' = <<>>
    /\ accumulated_data' = EmptyDict
    /\ call' = NoCall
    /\ calls' = <<>>
    /\ inflight' = 0
    /\ outcome' = NoOutcome

\* step_info['step'] / step_info['tool'] are read outside the try: KeyError leaves execute_plan
StepKeyError ==
    /\ pc = "exec"
    /\ i <= Len(Steps(plan))
    /\ ~({"step", "tool"} \subseteq DOMAIN Steps(plan)[i])
    /\ pc' = "raised"
    /\ raised_by' = "execute_plan"
    /\ UNCHANGED <<reqVars, outVars, runVars, plan, i, execution_results,
                   accumulated_data, call, calls, inflight>>
    /\ UNCHANGED dbVars

\* faulty variant of StepUnknownTool: break instead of continue
StepUnknownToolAborts ==
    /\ pc = "exec"
    /\ i <= Len(Steps(plan))
    /\ {"step", "tool"} \subseteq DOMAIN Steps(plan)[i]
    /\ Steps(plan)[i]["tool"] \notin ToolNames
    /\ execution_results' = Append(execution_results, UnknownToolRecord(Steps(plan)[i]))
    /\ i' = Len(Steps(plan)) + 1
    /\ UNCHANGED <<reqVars, outVars, runVars, pc, plan, accumulated_data, call, calls,
                   inflight, raised_by>>
    /\ UNCHANGED dbVars

\* self.tools.get(tool_name) is None: error record, continue
StepUnknownTool ==
    /\ pc = "exec"
    /\ i <= Len(Steps(plan))
    /\ {"step", "tool"} \subseteq DOMAIN Steps(plan)[i]
    /\ Steps(plan)[i]["tool"] \notin ToolNames
    /\ execution_results' = Append(execution_results, UnknownToolRecord(Steps(plan)[i]))
    /\ i' = i + 1
    /\ UNCHANGED <<reqVars, outVars, runVars, pc, plan, accumulated_data, call, calls,
                   inflight, raised_by>>
    /\ UNCHANGED dbVars

\* reconciliation raises, or the call does not bind (TypeError): caught, error record
StepCallError ==
    /\ pc = "exec"
    /\ i <= Len(Steps(plan))
    /\ {"step", "tool"} \subseteq DOMAIN Steps(plan)[i]
    /\ Steps(plan)[i]["tool"] \in ToolNames
    /\ LET step_info == Steps(plan)[i]
           tool_name == step_info["tool"]
           prep == PreparedParams(tool_name, StepParams(step_info), accumulated_data)
       IN  /\ ~(~prep.raised /\ BindsOk(tool_name, prep.params))
           /\ plan' = WriteParams(plan, i, prep.params)
           /\ execution_results' =
                  Append(execution_results,
                         ExceptionRecord(step_info,
                                         IF prep.raised THEN "date value out of range"
                                         ELSE "TypeError"))
    /\ i' = i + 1
    /\ UNCHANGED <<reqVars, outVars, runVars, pc, accumulated_data, call, calls,
                   inflight, raised_by>>
    /\ UNCHANGED dbVars

\* faulty variant of StepInvoke: the call is started and the loop goes on without awaiting it
StepInvokeNoAwait ==
    /\ pc = "exec"
    /\ i <= Len(Steps(plan))
    /\ {"step", "tool"} \subseteq DOMAIN Steps(plan)[i]
    /\ Steps(plan)[i]["tool"] \in ToolNames
    /\ LET step_info == Steps(plan)[i]
           tool_name == step_info["tool"]
           prep == PreparedParams(tool_name, StepParams(step_info), accumulated_data)
       IN  /\ ~prep.raised
           /\ BindsOk(tool_name, prep.params)
           /\ plan' = WriteParams(plan, i, prep.params)
           /\ call' = [index |-> i, tool |-> tool_name, params |-> prep.params,
                       given |-> StepParams(step_info)]
           /\ calls' = Append(calls, [index |-> i, tool |-> tool_name, params |-> prep.params])
    /\ inflight' = inflight + 1
    /\ i' = i + 1
    /\ UNCHANGED <<reqVars, outVars, runVars, pc, execution_results, accumulated_data,
                   raised_by>>
    /\ UNCHANGED dbVars

\* result = await tool_func(**params): the call starts
StepInvoke ==
    /\ pc = "exec"
    /\ i <= Len(Steps(plan))
    /\ {"step", "tool"} \subseteq DOMAIN Steps(plan)[i]
    /\ Steps(plan)[i]["tool"] \in ToolNames
    /\ LET step_info == Steps(plan)[i]
           tool_name == step_info["tool"]
           prep == PreparedParams(tool_name, StepParams(step_info), accumulated_data)
       IN  /\ ~prep.raised
           /\ BindsOk(tool_name, prep.params)
           /\ plan' = WriteParams(plan, i, prep.params)
           /\ call' = [index |-> i, tool |-> tool_name, params |-> prep.params,
                       given |-> StepParams(step_info)]
           /\ calls' = Append(calls, [index |-> i, tool |-> tool_name, params |-> prep.params])
    /\ inflight' = inflight + 1
    /\ pc' = "await"
    /\ UNCHANGED <<reqVars, outVars, runVars, i, execution_results, accumulated_data,
                   raised_by>>
    /\ UNCHANGED dbVars

\* the call returns: store a successful result, append the record
\* (step_info['description'] missing: KeyError after the store, caught);
\* a call that raises ends in the except branch
Return(o) ==
    LET step_info == Steps(plan)[i] IN
    /\ outcome' = o
    /\ accumulated_data' =
           IF o.raised THEN accumulated_data
           ELSE StoreResult(accumulated_data, call.tool, o.result)
    /\ execution_results' =
           Append(execution_results,
                  IF o.raised THEN ExceptionRecord(step_info, o.result.error[1])
                  ELSE IF "description" \in DOMAIN step_info
                  THEN ResultRecord(step_info, o.result)
                  ELSE ExceptionRecord(step_info, "'description'"))
    /\ inflight' = inflight - 1
    /\ call' = NoCall
    /\ i' = i + 1
    /\ pc' = "exec"
    /\ UNCHANGED <<reqVars, outVars, plan, calls, raised_by, earlier, llm_call>>

ToolReturn ==
    /\ pc = "await"
    /\ \E o \in ToolResults(call.tool, call.params) : Return(o)
    /\ UNCHANGED memo
    /\ UNCHANGED dbVars

\* the answers a deterministic tool may give to  tool(**params): the one it gave before
SameAnswers(tool, params) ==
    IF \E m \in memo : m.tool = tool /\ m.params = params
    THEN {m.outcome : m \in {x \in memo : x.tool = tool /\ x.params = params}}
    ELSE ToolResults(tool, params)

\* the call returns, the tools being deterministic functions of their parameters
ToolReturnSame ==
    /\ pc = "await"
    /\ \E o \in SameAnswers(call.tool, call.params) :
           /\ Return(o)
           /\ memo' = memo \cup {[tool |-> call.tool, params |-> call.params, outcome |-> o]}
    /\ UNCHANGED dbVars

\* the loop is over: execute_plan returns to its caller
ExecutePlanReturn ==
    /\ pc = "exec"
    /\ i > Len(Steps(plan))
    /\ pc' = IF mode = "research" THEN "synth" ELSE "done"
    /\ UNCHANGED <<reqVars, outVars, runVars, plan, i, execution_results,
                   accumulated_data, call, calls, inflight, raised_by>>
    /\ UNCHANGED dbVars

Executor ==
    \/ StepKeyError
    \/ StepUnknownTool
    \/ StepCallError
    \/ StepInvoke
    \/ ToolReturn
    \/ ExecutePlanReturn

-----------------------------------------------------------------------------
(* Planner: queries and keyword matching *)

\* the research queries of the model, as lists of blank-separated words
Queries ==
    { <<"Compare", "perspectives", "on", "climate", "policy">>,
      <<"What", "happened", "in", "the", "past", "3", "days?">>,
      <<"news", "from", "the", "last", "1000000", "days">>,
      <<"latest", "AI", "news", "this", "week">>,
      <<"summarize", "wired", "and", "techcrunch", "top", "stories">>,
      <<"climate", "news">>,
      <<"trending", "stories", "from", "the", "last", "2", "weeks">>,
      <<"bias", "in", "coverage", "past", "12", "hours">>,
      <<"key", "points", "of", "the", "last", "1", "month">> }

\* str.lower() of the words that are not lower case already
LowerOf ==
    { <<"AI", "ai">>, <<"Compare", "compare">>, <<"What", "what">> }

\* int() of the words matching \d+
NumberOf ==
    { <<"1", 1>>, <<"1000000", 1000000>>, <<"12", 12>>, <<"2", 2>>, <<"3", 3>> }

\* <<w, k>>: keyword k is a proper substring of word w
WordContains ==
    { <<"perspectives", "perspective">>, <<"weeks", "week">> }

\* <<w, k>>: word w ends with k, k a first word of a key phrase
WordEnds ==
    {  }

\* <<w, k>>: word w starts with k, k a second word of a key phrase or a time unit
WordStarts ==
    { <<"days", "day">>, <<"days?", "day">>, <<"hours", "hour">>, <<"weeks", "week">> }

Lower(w) == IF \E t \in LowerOf : t[1] = w THEN (CHOOSE t \in LowerOf : t[1] = w)[2] ELSE w

\* query.lower()
LowerWords(query) == [k \in 1..Len(query) |-> Lower(query[k])]

IsNumber(w) == \E t \in NumberOf : t[1] = w

NumberValue(w) == (CHOOSE t \in NumberOf : t[1] = w)[2]

Contains(w, k) == w = k \/ <<w, k>> \in WordContains

EndsWith(w, k) == w = k \/ <<w, k>> \in WordEnds

StartsWith(w, k) == w = k \/ <<w, k>> \in WordStarts

\* keyword in query_lower, for a keyword of one word
HasWord(ql, k) == \E j \in 1..Len(ql) : Contains(ql[j], k)

\* keyword in query_lower, for a keyword of two words
HasPhrase(ql, a, b) == \E j \in 1..(Len(ql) - 1) : EndsWith(ql[j], a) /\ StartsWith(ql[j + 1], b)

TimeUnits == {"day", "week", "month", "hour"}

\* (past|last)\s+(\d+)\s+(day|week|month|hour)s?  matches at word j
TimeMatchAt(ql, j) ==
    /\ j + 2 <= Len(ql)
    /\ EndsWith(ql[j], "past") \/ EndsWith(ql[j], "last")
    /\ IsNumber(ql[j + 1])
    /\ \E u \in TimeUnits : StartsWith(ql[j + 2], u)

\* re.search: the leftmost match, 0 when there is none
TimeMatch(ql) ==
    IF \E j \in 1..Len(ql) : TimeMatchAt(ql, j)
    THEN CHOOSE j \in 1..Len(ql) :
             TimeMatchAt(ql, j) /\ \A h \in 1..(j - 1) : ~TimeMatchAt(ql, h)
    ELSE 0

\* detected_sources, in the order of source_keywords
DetectedSources(ql) ==
    (IF HasWord(ql, "substack") THEN <<"substack">> ELSE <<>>)
    \o (IF HasWord(ql, "techcrunch") THEN <<"techcrunch">> ELSE <<>>)
    \o (IF HasPhrase(ql, "ars", "technica") THEN <<"ars technica">> ELSE <<>>)
    \o (IF HasWord(ql, "wired") THEN <<"wired">> ELSE <<>>)
    \o (IF HasWord(ql, "verge") THEN <<"verge">> ELSE <<>>)

-----------------------------------------------------------------------------
(* Planner: the rule-based plan *)

\* plan.append({'step': step_num, ...}); step_num += 1
AddStep(steps, tool, description, params) ==
    Append(steps, [step |-> Len(steps) + 1, tool |-> tool,
                   description |-> description, params |-> params])

\* the get_by_timerange step for the match at word j
TimeRangeStep(query, number, unit, start) ==
    [raised |-> start.raised,
     steps |-> AddStep(<<>>, "get_by_timerange", "Get articles from past N units",
                       [start_date |-> start.v, end_date |-> IsoV(NowHours),
                        query |-> TextV(query)])]

MatchedUnit(w) == CHOOSE u \in TimeUnits : StartsWith(w, u)

TimeRangeAt(query, ql, j) ==
    TimeRangeStep(query, NumberValue(ql[j + 1]), MatchedUnit(ql[j + 2]),
                  NowMinus(NumberValue(ql[j + 1]) * UnitHours(MatchedUnit(ql[j + 2]))))

WantsTrending(ql) ==
    \/ HasWord(ql, "trending") \/ HasWord(ql, "recent") \/ HasWord(ql, "latest")
    \/ HasPhrase(ql, "this", "week") \/ HasPhrase(ql, "this", "month")

\* the retrieval step the plan starts with, given the time match j (0: none)
FirstStepAt(query, ql, j) ==
    IF j # 0 THEN TimeRangeAt(query, ql, j)
    ELSE IF WantsTrending(ql)
    THEN [raised |-> FALSE,
          steps |-> AddStep(<<>>, "get_trending", "Analyze trending topics from recent articles",
                            [hours_back |-> IntV(IF HasWord(ql, "week") THEN 168 ELSE 720)])]
    ELSE [raised |-> FALSE,
          steps |-> AddStep(<<>>, "search_articles", "Search for articles about: query",
                            [query |-> TextV(query), limit |-> IntV(10)])]

FirstStep(query, ql) == FirstStepAt(query, ql, TimeMatch(ql))

WantsPerspectives(ql) ==
    \/ HasWord(ql, "perspective") \/ HasWord(ql, "bias") \/ HasWord(ql, "viewpoint")
    \/ HasWord(ql, "political") \/ HasPhrase(ql, "compare", "sources")
    \/ HasPhrase(ql, "different", "views")

WantsComparison(ql) ==
    HasWord(ql, "compare") \/ HasWord(ql, "difference") \/ HasWord(ql, "versus")
    \/ HasWord(ql, "vs")

WantsSummary(ql) ==
    HasWord(ql, "summarize") \/ HasWord(ql, "summary") \/ HasWord(ql, "summaries")
    \/ HasPhrase(ql, "key", "points")

WantsTopics(ql) ==
    HasWord(ql, "topics") \/ HasWord(ql, "themes") \/ HasPhrase(ql, "what", "are")
    \/ HasWord(ql, "top")

WithPerspectives(steps, query, ql) ==
    IF WantsPerspectives(ql)
    THEN AddStep(steps, "analyze_perspectives",
                 "Analyze different perspectives from found articles", [focus |-> TextV(query)])
    ELSE steps

WithComparison(steps, ql) ==
    IF WantsComparison(ql)
    THEN AddStep(steps, "compare_articles", "Compare articles from different sources", EmptyDict)
    ELSE steps

WithSummary(steps, ql) ==
    IF WantsSummary(ql)
    THEN AddStep(steps, "generate_summary", "Generate AI summaries of key articles",
                 [summary_type |-> StrV("comprehensive")])
    ELSE steps

WithSources(steps, detected_sources) ==
    IF detected_sources # <<>>
    THEN AddStep(steps, "filter_by_source", "Filter to the detected sources",
                 [source_types |-> ListV(detected_sources)])
    ELSE steps

WithTopics(steps, ql) ==
    IF WantsTopics(ql)
    THEN AddStep(steps, "extract_topics", "Extract key topics and themes", EmptyDict)
    ELSE steps

\* faulty variant of WithDefault: a plan of one step is left as it is
WithDefaultNever(steps, query) == steps

\* if len(plan) == 1: add a default analysis step
WithDefault(steps, query) ==
    IF Len(steps) = 1
    THEN AddStep(steps, "analyze_perspectives", "Analyze the found articles",
                 [focus |-> TextV(query)])
    ELSE steps

\* the steps appended after the first one
PlanAfter(first, query, ql) ==
    [raised |-> first.raised,
     steps |-> IF first.raised THEN <<>>
               ELSE WithDefault(
                      WithTopics(
                        WithSources(
                          WithSummary(
                            WithComparison(
                              WithPerspectives(first.steps, query, ql), ql), ql),
                          DetectedSources(ql)), ql), query)]

PlanFor(query, ql) == PlanAfter(FirstStep(query, ql), query, ql)

\* _create_intelligent_plan(query); raised: the date arithmetic raised OverflowError
create_intelligent_plan(query) == PlanFor(query, LowerWords(query))

-----------------------------------------------------------------------------
(* Planner: the LLM path *)

\* lower-case texts that contain 'results_from_step'
PlaceholderTexts == {"results_from_step_1", "ids results_from_step_2"}

\* faulty variant of IsPlaceholder: the value is not lower-cased before the test
IsPlaceholderAsWritten(v) == v.k = "str" /\ v.s \in PlaceholderTexts /\ v.raw = "canon"

\* isinstance(value, str) and 'results_from_step' in value.lower()
IsPlaceholder(v) == v.k = "str" /\ v.s \in PlaceholderTexts

\* the raw step's params without the placeholders
CleanParams(params) == [x \in {y \in DOMAIN params : ~IsPlaceholder(params[y])} |-> params[x]]

\* step.get('parameters', step.get('params', {}))
RawParams(raw) ==
    IF "parameters" \in DOMAIN raw THEN raw["parameters"]
    ELSE IF "params" \in DOMAIN raw THEN raw["params"]
    ELSE EmptyDict

\* step.get('tool_name', step.get('tool', 'search_articles'))
RawTool(raw) ==
    IF "tool_name" \in DOMAIN raw THEN raw["tool_name"]
    ELSE IF "tool" \in DOMAIN raw THEN raw["tool"]
    ELSE "search_articles"

NormalizeStep(raw, position) ==
    [step |-> position, tool |-> RawTool(raw),
     description |-> IF "description" \in DOMAIN raw THEN raw["description"] ELSE "",
     params |-> CleanParams(RawParams(raw))]

\* what the planning call  self.llm.invoke(...)  may do:
\*   none      no call is made
\*   raise     the call raises
\*   prose     the response holds no JSON object
\*   badjson   the response holds braces that json.loads rejects
\*   badsteps  the JSON's steps are not objects
\*   json      the JSON's steps are the raw steps in steps
NoReply == [kind |-> "none", steps |-> <<>>]

RawPlans ==
    { <<>>,
      << [step_number |-> 1, tool_name |-> "search_articles", description |-> "find",
          parameters |-> [query |-> StrV("ai"), limit |-> IntV(5)]],
         [step_number |-> 2, tool_name |-> "analyze_perspectives", description |-> "analyze",
          parameters |-> [article_ids |-> StrV("results_from_step_1"),
                          focus |-> StrV("ai")]] >>,
      << [step_number |-> 7, tool |-> "get_by_timerange",
          params |-> [start |-> RelV("day ago", 7), end |-> RelV("now", 0)]],
         [tool |-> "extract_topics"],
         [step_number |-> 3, tool_name |-> "generate_summary", description |-> "sum up",
          parameters |-> [article_id |-> [StrV("ids results_from_step_2") EXCEPT !.raw = "upper"],
                          type |-> StrV("brief")]] >>,
      << [step_number |-> 1, tool_name |-> "web_search", description |-> "search the web",
          parameters |-> [query |-> StrV("ai")]],
         [step_number |-> 2, tool_name |-> "get_trending", description |-> "trends",
          parameters |-> [hours_back |-> IntV(24)]] >> }

LLMReplies ==
    {[kind |-> k, steps |-> <<>>] : k \in {"raise", "prose", "badjson", "badsteps"}}
    \cup {[kind |-> "json", steps |-> r] : r \in RawPlans}

\* _parse_plan_from_response(response.content, query): every failure, and an empty
\* step list, end in _create_intelligent_plan(query), whose own exception is not caught
parse_plan_from_response(reply, query) ==
    IF reply.kind = "json" /\ reply.steps # <<>>
    THEN [raised |-> FALSE,
          steps |-> [k \in 1..Len(reply.steps) |-> NormalizeStep(reply.steps[k], k)]]
    ELSE create_intelligent_plan(query)

\* the plan create_plan returns when self.llm is None
MockPlan(query) ==
    << [step |-> 1, action |-> "search_articles",
        description |-> "Search for relevant articles", params |-> [query |-> TextV(query)]],
       [step |-> 2, action |-> "generate_summary", description |-> "Generate summaries",
        params |-> EmptyDict] >>

\* create_plan(user_query): the dict returned, or raised
create_plan(query, reply) ==
    IF ~llm
    THEN [raised |-> FALSE, plan |-> [plan |-> MockPlan(query)]]
    ELSE IF reply.kind = "raise"
    THEN LET fb == create_intelligent_plan(query) IN
         [raised |-> fb.raised, plan |-> [error |-> <<>>, fallback_plan |-> fb.steps]]
    ELSE LET parsed == parse_plan_from_response(reply, query) IN
         [raised |-> parsed.raised, plan |-> [plan |-> parsed.steps]]

-----------------------------------------------------------------------------
(* Synthesizer *)

\* tools whose successful result _synthesize_final_answer formats
FormattedTools ==
    {"get_trending", "extract_topics", "search_articles", "get_by_timerange",
     "filter_by_source", "generate_summary"}

\* faulty variant of ResultsSummary: the status of the step is not looked at
RECURSIVE ResultsSummaryAll(_)
ResultsSummaryAll(results) ==
    IF results = <<>> THEN <<>>
    ELSE LET r == Head(results) IN
         (IF r.tool \in FormattedTools
          THEN <<[step |-> r.step, tool |-> r.tool]>> ELSE <<>>)
         \o ResultsSummaryAll(Tail(results))

\* results_summary: one entry per successful step of a formatted tool
RECURSIVE ResultsSummary(_)
ResultsSummary(results) ==
    IF results = <<>> THEN <<>>
    ELSE LET r == Head(results) IN
         (IF r.status = "success" /\ r.tool \in FormattedTools
          THEN <<[step |-> r.step, tool |-> r.tool]>> ELSE <<>>)
         \o ResultsSummary(Tail(results))

Sentinel == "Unable to synthesize final answer from research results."

-----------------------------------------------------------------------------
(* research(user_query) *)

\* the /research handler calls agent.research(query)
ResearchCall ==
    /\ pc = "idle"
    /\ \E q \in Queries : user_query' = q
    /\ mode' = "research"
    /\ pc' = "plan"
    /\ UNCHANGED <<llm, llm_reply, outVars, runVars, plan, i, execution_results,
                   accumulated_data, call, calls, inflight, raised_by>>
    /\ UNCHANGED dbVars

\* plan_result = await self.create_plan(user_query)
CreatePlan ==
    /\ pc = "plan"
    /\ \E reply \in (IF llm THEN LLMReplies ELSE {NoReply}) :
           LET res == create_plan(user_query, reply) IN
           /\ llm_reply' = reply
           /\ plan' = IF res.raised THEN plan ELSE res.plan
           /\ pc' = IF res.raised THEN "raised" ELSE "planned"
           /\ raised_by' = IF res.raised THEN "create_plan" ELSE raised_by
    /\ UNCHANGED <<llm, mode, user_query, outVars, runVars, i, execution_results,
                   accumulated_data, call, calls, inflight>>
    /\ UNCHANGED dbVars

\* execution_result = await self.execute_plan(plan_result)
BeginExecute ==
    /\ pc = "planned"
    /\ EnterExecutePlan(plan)
    /\ pc' = "exec"
    /\ UNCHANGED <<reqVars, outVars, raised_by, memo, earlier, llm_call>>
    /\ UNCHANGED dbVars

\* what  self.analysis_agent.llm.invoke(synthesis_prompt)  may do: reply a text,
\* raise, or, the llm being None, fail with AttributeError
SynthesisCalls == IF llm THEN {"text", "raise"} ELSE {"none"}

\* faulty variant of Synthesize: the exception of the LLM call is not caught
SynthesizeUncaught ==
    /\ pc = "synth"
    /\ results_summary' = ResultsSummary(execution_results)
    /\ \E did \in SynthesisCalls :
           /\ llm_call' = did
           /\ final_answer' = IF did = "text" THEN "answer" ELSE final_answer
           /\ pc' = IF did = "text" THEN "done" ELSE "raised"
           /\ raised_by' = IF did = "text" THEN raised_by ELSE "_synthesize_final_answer"
    /\ UNCHANGED <<reqVars, outcome, memo, earlier, plan, i, execution_results,
                   accumulated_data, call, calls, inflight>>
    /\ UNCHANGED dbVars

\* final_answer = await self._synthesize_final_answer(...), then research returns;
\* whatever is raised inside the synthesizer ends in the sentinel
Synthesize ==
    /\ pc = "synth"
    /\ results_summary' = ResultsSummary(execution_results)
    /\ \E did \in SynthesisCalls :
           /\ llm_call' = did
           /\ final_answer' = IF did = "text" THEN "answer" ELSE Sentinel
    /\ pc' = "done"
    /\ UNCHANGED <<reqVars, outcome, memo, earlier, plan, i, execution_results,
                   accumulated_data, call, calls, inflight, raised_by>>
    /\ UNCHANGED dbVars

-----------------------------------------------------------------------------
(* POST /execute-plan: hand-built plans *)

\* steps a client may put in a plan (numbered when the plan is assembled)
HandSteps ==
    { [tool |-> "search_articles", description |-> "search",
       params |-> [query |-> StrV("ai")]],
      [tool |-> "get_by_timerange", description |-> "window",
       params |-> [start |-> RelV("_hours_ago", 48), end_date |-> RelV("now", 0)]],
      [tool |-> "get_by_timerange", description |-> "window",
       params |-> [start_date |-> IsoV(NowHours - 48), end_date |-> IsoV(NowHours)]],
      [tool |-> "get_trending", description |-> "trending", params |-> EmptyDict],
      [tool |-> "get_trending", params |-> EmptyDict],
      [tool |-> "filter_by_source", description |-> "filter",
       params |-> [source_types |-> ListV(<<"wired">>)]],
      [tool |-> "extract_topics", description |-> "topics", params |-> EmptyDict],
      [tool |-> "generate_summary", description |-> "summary",
       params |-> [type |-> StrV("brief")]],
      [tool |-> "web_search", description |-> "not registered",
       params |-> [query |-> StrV("ai")]],
      [action |-> "search_articles", description |-> "Search for relevant articles",
       params |-> [query |-> StrV("ai")]] }

\* a hand-built plan need not number its steps 1..n
StepNo(k) == 10 * k

NumberSteps(q) == [k \in 1..Len(q) |-> Put(q[k], "step", StepNo(k))]

HandPlans ==
    {[plan |-> NumberSteps(q)] : q \in UNION {[1..n -> HandSteps] : n \in 0..MaxPlanLen}}

\* the /execute-plan handler calls agent.execute_plan(plan)
ExecutePlanCall ==
    /\ pc = "idle"
    /\ \E p \in HandPlans : EnterExecutePlan(p)
    /\ mode' = "execute"
    /\ pc' = "exec"
    /\ UNCHANGED <<llm, user_query, llm_reply, outVars, raised_by, memo, earlier, llm_call>>
    /\ UNCHANGED dbVars

\* a caller runs execute_plan a second time on the plan object it ran before,
\* which is as the first call left it
ExecuteAgain ==
    /\ pc \in {"done", "raised"}
    /\ mode = "execute"
    /\ ~earlier.ran
    /\ earlier' = [ran |-> TRUE, raised |-> (pc = "raised"), trace |-> execution_results]
    /\ EnterExecutePlan(plan)
    /\ pc' = "exec"
    /\ raised_by' = ""
    /\ UNCHANGED <<reqVars, outVars, memo, llm_call>>
    /\ UNCHANGED dbVars

\* one call of each registered tool, as a step of a plan
ToolSteps ==
    { [tool |-> "search_articles", description |-> "search",
       params |-> [query |-> StrV("ai")]],
      [tool |-> "get_article_details", description |-> "details",
       params |-> [article_id |-> IntV(1)]],
      [tool |-> "filter_by_source", description |-> "filter",
       params |-> [article_ids |-> IdsV(<<2, 3>>), source_types |-> ListV(<<"wired">>)]],
      [tool |-> "generate_summary", description |-> "summary",
       params |-> [article_id |-> IntV(1)]],
      [tool |-> "generate_summary", description |-> "summary",
       params |-> [article_id |-> IntV(1), start_date |-> IsoV(NowHours - 48),
                   end_date |-> RelV("now", 0)]],
      [tool |-> "generate_summary", description |-> "summary",
       params |-> [article_id |-> IntV(1), start_date |-> StrV("yesterday")]],
      [tool |-> "analyze_perspectives", description |-> "perspectives",
       params |-> [article_ids |-> IdsV(<<2, 3>>)]],
      [tool |-> "analyze_perspectives", description |-> "perspectives",
       params |-> [article_ids |-> IdsV(<<1>>)]],
      [tool |-> "analyze_perspectives", description |-> "perspectives",
       params |-> [article_ids |-> IdsV(<<1, 2, 3, 4, 5, 6, 7, 8, 9, 10, 11>>)]],
      [tool |-> "analyze_perspectives", description |-> "perspectives",
       params |-> [article_ids |-> IdsV(<<1, 2, 3, 4, 5, 6, 7, 8, 9, 10>>)]],
      [tool |-> "compare_articles", description |-> "compare",
       params |-> [article1_id |-> IntV(2), article2_id |-> IntV(3)]],
      [tool |-> "extract_topics", description |-> "topics",
       params |-> [article_ids |-> IdsV(<<2, 3>>)]],
      [tool |-> "get_trending", description |-> "trending", params |-> EmptyDict],
      [tool |-> "get_trending", description |-> "trending",
       params |-> [hours_back |-> IntV(168)]],
      [tool |-> "categorize_bias", description |-> "bias",
       params |-> [article_ids |-> IdsV(<<2, 3>>)]],
      [tool |-> "get_by_timerange", description |-> "window",
       params |-> [start_date |-> IsoV(NowHours - 48), end_date |-> IsoV(NowHours)]],
      [tool |-> "get_by_timerange", description |-> "window",
       params |-> [start_date |-> StrV("yesterday"), end_date |-> IsoV(NowHours)]] }

ToolPlans == {[plan |-> NumberSteps(<<t>>)] : t \in ToolSteps}

\* execute_plan is called with a plan of one tool call
ToolCall ==
    /\ pc = "idle"
    /\ \E p \in ToolPlans : EnterExecutePlan(p)
    /\ mode' = "execute"
    /\ pc' = "exec"
    /\ UNCHANGED <<llm, user_query, llm_reply, outVars, raised_by, memo, earlier, llm_call>>
    /\ UNCHANGED dbVars

\* the handler answers (the result, or status 500 when the call raised); the call's
\* locals are gone, the last Accumulator only survives in the answer's final_data
Respond ==
    /\ pc \in {"done", "raised"}
    /\ pc' = "idle"
    /\ mode' = "none"
    /\ user_query' = <<>>
    /\ plan' = EmptyDict
    /\ i' = 1
    /\ execution_results' = <<>>
    /\ call' = NoCall
    /\ calls' = <<>>
    /\ inflight' = 0
    /\ final_answer' = ""
    /\ results_summary' = <<>>
    /\ llm_reply' = NoReply
    /\ raised_by' = ""
    /\ outcome' = NoOutcome
    /\ memo' = {}
    /\ earlier' = NoRun
    /\ llm_call' = ""
    /\ UNCHANGED <<llm, accumulated_data>>
    /\ UNCHANGED dbVars

-----------------------------------------------------------------------------
(* Tag and RSS feed management: api/tags.py, api/rss_feeds.py, database.py  *)
(* A name is a sequence of characters; Optional[T] is <<>> or <<value>>.    *)

\* ids the tags sequence may issue
MaxTagId == 2

\* ids the rss_feeds sequence may issue
MaxFeedId == 2

None == <<>>

Some(x) == <<x>>

\* str.strip()
RECURSIVE Strip(_)
Strip(v) ==
    IF v # <<>> /\ Head(v) = " " THEN Strip(Tail(v))
    ELSE IF v # <<>> /\ v[Len(v)] = " " THEN Strip(SubSeq(v, 1, Len(v) - 1))
    ELSE v

\* the tables: tags and rss_feeds by id, the association rows, the two id sequences
EmptyStore ==
    [tags |-> EmptyDict, feeds |-> EmptyDict, rss_feed_tags |-> {}, tag_id |-> 0, feed_id |-> 0]

NoResponse == [op |-> "", status |-> 0, detail |-> ""]

\* the handler raises HTTPException (or the request model refuses the body, status
\* 422): nothing was committed
HTTPException(status, detail, session) ==
    [status |-> status, detail |-> detail, session |-> session, committed |-> FALSE]

\* db.commit(): the session's changes are written, unless the unique index on
\* tags.name or rss_feeds.url refuses them; the handler's except branch then rolls
\* back and answers 500
Commit(session, status, failure) ==
    IF /\ \A a, b \in DOMAIN session.tags :
              session.tags[a].name = session.tags[b].name => a = b
       /\ \A a, b \in DOMAIN session.feeds :
              session.feeds[a].url = session.feeds[b].url => a = b
    THEN [status |-> status, detail |-> "", session |-> session, committed |-> TRUE]
    ELSE HTTPException(500, failure, session)

\* faulty variant of get_db: closing the session writes what is pending in it
get_dbFlushOnClose(db, r) == r.session

\* the session lives for one request: close() drops whatever was not committed
\* (an id drawn from a sequence stays drawn)
get_db(db, r) ==
    IF r.committed THEN r.session
    ELSE [db EXCEPT !.tag_id = r.session.tag_id, !.feed_id = r.session.feed_id]

\* TagCreate.name_not_empty / RSSFeedCreate.name_not_empty accept v
NameNotEmpty(v) == v # <<>> /\ Strip(v) # <<>>

\* TagUpdate.name_not_empty / RSSFeedUpdate.name_not_empty accept v
OptionalNameNotEmpty(v) == v = None \/ NameNotEmpty(v[1])

\* what the update validators return:  v.strip() if v else None
StrippedOptional(v) == IF v = None THEN None ELSE Some(Strip(v[1]))

\* validate_color accepts v
ValidateColor(v) ==
    \/ v = None
    \/ v[1] = <<>>
    \/ Head(v[1]) = "#" /\ Len(v[1]) = 7

\* faulty variant of NameTaken: the handlers do not look for the name
NameTakenNever(tags, name, tag_id) == FALSE

\* db.query(Tag).filter(Tag.name == name, Tag.id != tag_id).first()
NameTaken(tags, name, tag_id) ==
    \E t \in DOMAIN tags : t # tag_id /\ tags[t].name = name

\* if v is not None: row.field = value
SetField(rows, id, field, v, value) ==
    IF v = None THEN rows ELSE [rows EXCEPT ![id] = [@ EXCEPT ![field] = value]]

create_tag(db, tag) ==
    IF NameTaken(db.tags, tag.name, 0)
    THEN HTTPException(400, "already exists", db)
    ELSE LET id == db.tag_id + 1 IN
         Commit([db EXCEPT !.tags = Put(@, id, [name |-> tag.name,
                                                description |-> tag.description,
                                                color |-> tag.color]),
                           !.tag_id = id],
                201, "Failed to create tag")

update_tag(db, tag_id, u) ==
    IF tag_id \notin DOMAIN db.tags
    THEN HTTPException(404, "Tag not found", db)
    ELSE IF u.name # None /\ NameTaken(db.tags, u.name[1], tag_id)
    THEN HTTPException(400, "already exists", db)
    ELSE Commit([db EXCEPT !.tags =
                     SetField(SetField(SetField(@, tag_id, "name", u.name, Head(u.name)),
                                       tag_id, "description", u.description, u.description),
                              tag_id, "color", u.color, u.color)],
                200, "Failed to update tag")

\* the association rows go with the tag (ondelete CASCADE)
delete_tag(db, tag_id) ==
    IF tag_id \notin DOMAIN db.tags
    THEN HTTPException(404, "Tag not found", db)
    ELSE Commit([db EXCEPT !.tags = Del(@, tag_id),
                           !.rss_feed_tags = {p \in @ : p[2] # tag_id}],
                204, "Failed to delete tag")

\* len(tags) != len(tag_ids)  for  tags = db.query(Tag).filter(Tag.id.in_(tag_ids)).all()
TagsMissing(tags, tag_ids) ==
    Cardinality({tag_ids[k] : k \in DOMAIN tag_ids} \cap DOMAIN tags) # Len(tag_ids)

add_rss_feed(db, feed) ==
    IF \E f \in DOMAIN db.feeds : db.feeds[f].url = feed.url
    THEN HTTPException(400, "RSS feed URL already exists", db)
    ELSE IF feed.tag_ids # <<>> /\ TagsMissing(db.tags, feed.tag_ids)
    THEN HTTPException(400, "One or more tag IDs not found", db)
    ELSE LET id == db.feed_id + 1 IN
         Commit([db EXCEPT !.feeds = Put(@, id, [url |-> feed.url, name |-> feed.name,
                                                 description |-> feed.description,
                                                 is_active |-> 1]),
                           !.rss_feed_tags =
                               @ \cup {<<id, feed.tag_ids[k]>> : k \in DOMAIN feed.tag_ids},
                           !.feed_id = id],
                201, "Failed to add RSS feed")

\* the three attributes are set on the session's object before the tags are looked up
FeedPending(db, feed_id, u) ==
    [db EXCEPT !.feeds =
         SetField(SetField(SetField(@, feed_id, "name", u.name, Head(u.name)),
                           feed_id, "description", u.description, u.description),
                  feed_id, "is_active", u.is_active, IF Head(u.is_active) THEN 1 ELSE 0)]

update_rss_feed(db, feed_id, u) ==
    IF feed_id \notin DOMAIN db.feeds
    THEN HTTPException(404, "RSS feed not found", db)
    ELSE IF u.tag_ids = None
    THEN Commit(FeedPending(db, feed_id, u), 200, "Failed to update RSS feed")
    ELSE IF TagsMissing(db.tags, u.tag_ids[1])
    THEN HTTPException(400, "One or more tag IDs not found", FeedPending(db, feed_id, u))
    ELSE Commit([FeedPending(db, feed_id, u) EXCEPT !.rss_feed_tags =
                     {p \in @ : p[1] # feed_id}
                         \cup {<<feed_id, u.tag_ids[1][k]>> : k \in DOMAIN u.tag_ids[1]}],
                200, "Failed to update RSS feed")

\* the association rows go with the feed (ondelete CASCADE)
delete_rss_feed(db, feed_id) ==
    IF feed_id \notin DOMAIN db.feeds
    THEN HTTPException(404, "RSS feed not found", db)
    ELSE Commit([db EXCEPT !.feeds = Del(@, feed_id),
                           !.rss_feed_tags = {p \in @ : p[1] # feed_id}],
                204, "Failed to delete RSS feed")

\* request bodies
TagCreateBodies ==
    [name : {<<"t">>, <<" ", "t">>, <<"s">>, <<" ">>},
     description : {None, Some("about")},
     color : {None, Some(<<"#", "0", "0", "f", "f", "0", "0">>), Some(<<"r", "e", "d">>),
              Some(<<"#", "f", "0", "0">>)}]

TagUpdateBodies ==
    [name : {None, Some(<<"t">>), Some(<<"s", " ">>), Some(<<" ">>)},
     description : {None, Some("about")},
     color : {None, Some(<<"#", "0", "0", "f", "f", "0", "0">>), Some(<<"r", "e", "d">>)}]

RSSFeedCreateBodies ==
    [url : {"u1"}, name : {<<"w">>, <<" ">>}, description : {None, Some("about")},
     tag_ids : {<<>>, <<1>>, <<1, 2>>, <<1, 1>>, <<MaxTagId + 1>>}]

RSSFeedUpdateBodies ==
    [name : {None, Some(<<"b", " ">>), Some(<<" ">>)},
     description : {None, Some("news")},
     is_active : {None, Some(FALSE)},
     tag_ids : {None, Some(<<>>), Some(<<1>>), Some(<<1, 2>>), Some(<<1, 1>>),
                Some(<<1, MaxTagId + 1>>)}]

\* the answer to a request and what get_db leaves in the tables
Answer(op, r) ==
    /\ store' = get_db(store, r)
    /\ response' = [op |-> op, status |-> r.status, detail |-> r.detail]
    /\ UNCHANGED agentVars

CreateTag(tag) ==
    /\ store.tag_id < MaxTagId
    /\ Answer("create_tag",
              IF NameNotEmpty(tag.name) /\ ValidateColor(tag.color)
              THEN create_tag(store, [tag EXCEPT !.name = Strip(@)])
              ELSE HTTPException(422, "validation", store))

UpdateTag(tag_id, tag_update) ==
    Answer("update_tag",
           IF OptionalNameNotEmpty(tag_update.name) /\ ValidateColor(tag_update.color)
           THEN update_tag(store, tag_id, [tag_update EXCEPT !.name = StrippedOptional(@)])
           ELSE HTTPException(422, "validation", store))

DeleteTag(tag_id) == Answer("delete_tag", delete_tag(store, tag_id))

AddRSSFeed(feed) ==
    /\ store.feed_id < MaxFeedId
    /\ Answer("add_rss_feed",
              IF NameNotEmpty(feed.name)
              THEN add_rss_feed(store, [feed EXCEPT !.name = Strip(@)])
              ELSE HTTPException(422, "validation", store))

UpdateRSSFeed(feed_id, feed_update) ==
    Answer("update_rss_feed",
           IF OptionalNameNotEmpty(feed_update.name)
           THEN update_rss_feed(store, feed_id,
                                [feed_update EXCEPT !.name = StrippedOptional(@)])
           ELSE HTTPException(422, "validation", store))

DeleteRSSFeed(feed_id) == Answer("delete_rss_feed", delete_rss_feed(store, feed_id))

-----------------------------------------------------------------------------
(* Specifications *)

\* no request has been made to the research agent
InitAgent ==
    /\ llm \in BOOLEAN
    /\ pc = "idle"
    /\ mode = "none"
    /\ user_query = <<>>
    /\ plan = EmptyDict
    /\ i = 1
    /\ execution_results = <<>>
    /\ accumulated_data = EmptyDict
    /\ call = NoCall
    /\ calls = <<>>
    /\ inflight = 0
    /\ final_answer = ""
    /\ results_summary = <<>>
    /\ llm_reply = NoReply
    /\ raised_by = ""
    /\ outcome = NoOutcome
    /\ memo = {}
    /\ earlier = NoRun
    /\ llm_call = ""

Init ==
    /\ InitAgent
    /\ store = EmptyStore
    /\ response = NoResponse

\* tables in which some tags were created earlier
SeededStores ==
    {[EmptyStore EXCEPT !.tags = [t \in ids |-> [name |-> IF t = 1 THEN <<"t">> ELSE <<"s">>,
                                                  description |-> None, color |-> None]],
                        !.tag_id = MaxTagId] : ids \in SUBSET (1..2)}

InitFeeds ==
    /\ InitAgent
    /\ store \in SeededStores
    /\ response = NoResponse

Next == ResearchCall \/ CreatePlan \/ BeginExecute \/ Executor \/ Synthesize \/ Respond

\* research requests end to end
Spec == Init /\ [][Next]_vars

NextExec == ExecutePlanCall \/ Executor \/ Respond

\* the executor alone, driven through /execute-plan
SpecExec == Init /\ [][NextExec]_vars

NextTwice ==
    \/ ExecutePlanCall
    \/ StepKeyError
    \/ StepUnknownTool
    \/ StepCallError
    \/ StepInvoke
    \/ ToolReturnSame
    \/ ExecutePlanReturn
    \/ ExecuteAgain
    \/ Respond

NextTools ==
    ToolCall \/ StepCallError \/ StepInvoke \/ ToolReturn \/ ExecutePlanReturn \/ Respond

\* each registered tool called once, with every reply its collaborators may give
SpecTools == Init /\ [][NextTools]_vars

\* execute_plan run twice on one plan object, the tools being deterministic
SpecTwice == Init /\ [][NextTwice]_vars

NextTags ==
    \/ \E tag \in TagCreateBodies : CreateTag(tag)
    \/ \E tag_id \in 1..MaxTagId, tag_update \in TagUpdateBodies : UpdateTag(tag_id, tag_update)
    \/ \E tag_id \in 1..MaxTagId : DeleteTag(tag_id)

\* requests to the tag endpoints, one at a time
SpecTags == Init /\ [][NextTags]_vars

NextFeeds ==
    \/ \E feed \in RSSFeedCreateBodies : AddRSSFeed(feed)
    \/ \E feed_id \in 1..MaxFeedId, feed_update \in RSSFeedUpdateBodies :
           UpdateRSSFeed(feed_id, feed_update)
    \/ \E feed_id \in 1..MaxFeedId : DeleteRSSFeed(feed_id)
    \/ \E tag_id \in 1..MaxTagId : DeleteTag(tag_id)

\* requests to the feed endpoints, one at a time, with tags going away in between
SpecFeeds == InitFeeds /\ [][NextFeeds]_vars

-----------------------------------------------------------------------------
(* Properties *)

\* the first key of  order  present in the Accumulator, and the ids under it
RECURSIVE FirstPresent(_, _)
FirstPresent(acc, order) ==
    IF order = <<>> THEN [found |-> FALSE, ids |-> <<>>]
    ELSE IF Head(order) \in DOMAIN acc THEN [found |-> TRUE, ids |-> acc[Head(order)]]
    ELSE FirstPresent(acc, Tail(order))

\* the first key of  order  whose list in the Accumulator is non-empty
RECURSIVE FirstFilled(_, _)
FirstFilled(acc, order) ==
    IF order = <<>> THEN [found |-> FALSE, ids |-> <<>>]
    ELSE IF Head(order) \in DOMAIN acc /\ acc[Head(order)] # <<>>
         THEN [found |-> TRUE, ids |-> acc[Head(order)]]
    ELSE FirstFilled(acc, Tail(order))

FilteredFirstOrder ==
    <<"filtered_article_ids", "timerange_articles", "search_results", "article_ids">>

\* the relative-time texts are resolved against the time of the call
Resolved(v) == IF v.k = "rel" THEN parse_relative_time(v).v ELSE v

\* the value a step gave under a key or, failing that, under its alias
GivenUnder(given, key, alias) ==
    IF key \in DOMAIN given THEN given[key] ELSE given[alias]

\* C1: for every query and every LLM condition, research returns without raising,
\* and its result holds the plan, one trace record per plan step, and a
\* final_answer that is the LLM's synthesis or the fixed sentinel.
C1_ResearchAlwaysReturns ==
    mode = "research" =>
        /\ pc # "raised"
        /\ pc = "done" =>
               /\ DOMAIN plan # {}
               /\ Len(execution_results) = Len(Steps(plan))
               /\ final_answer \in {"answer", Sentinel}

\* C2: when the LLM is not configured, when the LLM call raises, when its output
\* holds no parseable JSON object, and when the parsed step list is empty, the plan
\* create_plan returns is exactly the rule-based planner's plan for the same query.
C2_FallbackIsRulePlan ==
    (/\ pc = "planned"
     /\ \/ ~llm
        \/ llm_reply.kind \in {"raise", "prose", "badjson"}
        \/ (llm_reply.kind = "json" /\ llm_reply.steps = <<>>))
    => Steps(plan) = create_intelligent_plan(user_query).steps

\* C3: for every query and every LLM condition, create_plan returns without
\* raising, and the plan has at least one step, with ordinals 1, 2, ..., n.
C3_CreatePlanTotal ==
    /\ raised_by # "create_plan"
    /\ pc = "planned" =>
           /\ Len(Steps(plan)) >= 1
           /\ \A k \in 1..Len(Steps(plan)) :
                  /\ "step" \in DOMAIN Steps(plan)[k]
                  /\ Steps(plan)[k]["step"] = k

\* C4: for every plan of n steps, execute_plan returns without raising a trace of
\* exactly n records, the k-th carrying the k-th step's number and tool and its own
\* status; a failed step does not keep the later steps from being executed.
C4_TraceFollowsPlan ==
    /\ raised_by # "execute_plan"
    /\ pc \in {"synth", "done"} =>
           /\ Len(execution_results) = Len(Steps(plan))
           /\ \A k \in 1..Len(execution_results) :
                  /\ execution_results[k].step = Steps(plan)[k]["step"]
                  /\ execution_results[k].tool = Steps(plan)[k]["tool"]
                  /\ execution_results[k].status \in {"success", "error"}

\* C5: at most one tool invocation is in flight at any time; the tool of step k is
\* invoked only after the record of step k-1 has been appended; invocations and
\* records are in plan order.
C5_OneToolAtATime ==
    /\ inflight <= 1
    /\ pc = "await" =>
           /\ inflight = 1
           /\ call.index = i
           /\ Len(execution_results) = call.index - 1
    /\ \A a, b \in 1..Len(calls) : a < b => calls[a].index < calls[b].index
    /\ \A k \in 1..Len(execution_results) :
           execution_results[k].step = Steps(plan)[k]["step"]

C5_SecondCallAfterFirstRecord ==
    /\ pc = "await"
    /\ call.index = 2
    /\ Len(calls) = 2
    /\ Len(execution_results) = 1

\* the step the loop is at names a tool that is not registered
AtUnknownTool ==
    /\ pc = "exec"
    /\ i <= Len(Steps(plan))
    /\ {"step", "tool"} \subseteq DOMAIN Steps(plan)[i]
    /\ Steps(plan)[i]["tool"] \notin ToolNames

\* C6: a step whose tool is not registered yields a record with status error and
\* the text 'Unknown tool: <name>', invokes no tool, leaves the Accumulator as it
\* was, and execution goes on to the next step without raising.
C6_UnknownToolStep ==
    [][AtUnknownTool =>
          /\ Len(execution_results') = Len(execution_results) + 1
          /\ execution_results'[i].step = Steps(plan)[i]["step"]
          /\ execution_results'[i].tool = Steps(plan)[i]["tool"]
          /\ execution_results'[i].status = "error"
          /\ execution_results'[i].error = <<"Unknown tool: ", Steps(plan)[i]["tool"]>>
          /\ calls' = calls
          /\ inflight' = 0
          /\ accumulated_data' = accumulated_data
          /\ i' = i + 1
          /\ pc' = "exec"]_vars

C6_UnknownThenNextStep ==
    /\ pc = "await"
    /\ i = 3
    /\ execution_results[2].error = <<"Unknown tool: ", "web_search">>
    /\ "search_results" \in DOMAIN accumulated_data
    /\ Len(calls) = 2

\* C7: an extract_topics step without article_ids is called with the ids under the
\* first key present in the Accumulator, in the order filtered_article_ids,
\* timerange_articles, search_results, article_ids.
C7_TopicsInjection ==
    (/\ pc = "await"
     /\ call.tool = "extract_topics"
     /\ "article_ids" \notin DOMAIN call.given)
    => LET first == FirstPresent(accumulated_data, FilteredFirstOrder) IN
       /\ first.found
       /\ call.params["article_ids"] = IdsV(first.ids)

C7_TopicsAfterFilter ==
    /\ pc = "await"
    /\ call.tool = "extract_topics"
    /\ "article_ids" \notin DOMAIN call.given
    /\ "filtered_article_ids" \in DOMAIN accumulated_data
    /\ "search_results" \in DOMAIN accumulated_data
    /\ accumulated_data["filtered_article_ids"] # accumulated_data["search_results"]

\* C8 (as stated): a filter_by_source step without article_ids is called with the
\* ids under the first key present in the order filtered_article_ids,
\* timerange_articles, search_results, article_ids, so that a second filter filters
\* the already-filtered ids.
C8_FilterInjectionFilteredFirst ==
    (/\ pc = "await"
     /\ call.tool = "filter_by_source"
     /\ "article_ids" \notin DOMAIN call.given)
    => LET first == FirstPresent(accumulated_data, FilteredFirstOrder) IN
       /\ first.found
       /\ call.params["article_ids"] = IdsV(first.ids)

\* C8 (amended): a filter_by_source step without article_ids is called with the ids
\* under the first key present in the order timerange_articles, search_results,
\* article_ids; filtered_article_ids is not consulted.
C8_FilterInjection ==
    (/\ pc = "await"
     /\ call.tool = "filter_by_source"
     /\ "article_ids" \notin DOMAIN call.given)
    => LET first == FirstPresent(accumulated_data,
                                 <<"timerange_articles", "search_results", "article_ids">>) IN
       /\ first.found
       /\ call.params["article_ids"] = IdsV(first.ids)

C8_SecondFilterRefiltersSearch ==
    /\ pc = "await"
    /\ call.tool = "filter_by_source"
    /\ "article_ids" \notin DOMAIN call.given
    /\ "filtered_article_ids" \in DOMAIN accumulated_data
    /\ "search_results" \in DOMAIN accumulated_data
    /\ accumulated_data["filtered_article_ids"] # accumulated_data["search_results"]
    /\ call.params["article_ids"] = IdsV(accumulated_data["search_results"])

\* C9 (as stated): a generate_summary step without article_id is called with the
\* first id of the first non-empty list in the order filtered_article_ids,
\* timerange_articles, search_results, article_ids.
C9_SummaryInjectionFilteredFirst ==
    (/\ pc = "await"
     /\ call.tool = "generate_summary"
     /\ "article_id" \notin DOMAIN call.given)
    => LET first == FirstFilled(accumulated_data, FilteredFirstOrder) IN
       /\ first.found
       /\ call.params["article_id"] = IntV(Head(first.ids))

\* C9 (amended): a generate_summary step without article_id is called with the
\* first id of the first non-empty list in the order search_results,
\* timerange_articles, filtered_article_ids, article_ids.
C9_SummaryInjection ==
    (/\ pc = "await"
     /\ call.tool = "generate_summary"
     /\ "article_id" \notin DOMAIN call.given)
    => LET first == FirstFilled(accumulated_data,
                                <<"search_results", "timerange_articles",
                                  "filtered_article_ids", "article_ids">>) IN
       /\ first.found
       /\ call.params["article_id"] = IntV(Head(first.ids))

C9_SummaryPrefersSearch ==
    /\ pc = "await"
    /\ call.tool = "generate_summary"
    /\ "article_id" \notin DOMAIN call.given
    /\ Filled(accumulated_data, "search_results")
    /\ Filled(accumulated_data, "timerange_articles")
    /\ Head(accumulated_data["search_results"]) # Head(accumulated_data["timerange_articles"])
    /\ call.params["article_id"] = IntV(Head(accumulated_data["search_results"]))

\* C10: the relative time expressions of a get_by_timerange step, under start_date
\* and end_date or the aliases start and end, are resolved to absolute timestamps
\* against the current time before the tool is invoked.
C10_TimerangeResolved ==
    (pc = "await" /\ call.tool = "get_by_timerange")
    => /\ call.params["start_date"] = Resolved(GivenUnder(call.given, "start_date", "start"))
       /\ call.params["end_date"] = Resolved(GivenUnder(call.given, "end_date", "end"))

\* C11: execute_plan does not modify the plan it is given: no executor step changes
\* a step's params (no key renamed, no value resolved, no id injected), so the plan
\* research reports is the plan the planner produced.
C11_PlanUnmodified ==
    [][(pc \in {"exec", "await"}) => (plan' = plan)]_vars

\* C12: with tools that are deterministic functions of their parameters, running
\* execute_plan twice on the same plan object yields two traces that agree record
\* by record on step number, tool, status and result.
C12_SecondRunAgrees ==
    (earlier.ran /\ pc \in {"done", "raised"}) =>
        /\ earlier.raised = (pc = "raised")
        /\ Len(execution_results) = Len(earlier.trace)
        /\ \A k \in 1..Len(execution_results) :
               /\ execution_results[k].step = earlier.trace[k].step
               /\ execution_results[k].tool = earlier.trace[k].tool
               /\ execution_results[k].status = earlier.trace[k].status
               /\ execution_results[k].result = earlier.trace[k].result

C12_SecondRunAfterInjection ==
    /\ earlier.ran
    /\ pc = "done"
    /\ Len(execution_results) = 3
    /\ \E k \in 2..3 :
           /\ execution_results[k].tool = "extract_topics"
           /\ execution_results[k].status = "success"
           /\ "article_ids" \in DOMAIN Steps(plan)[k]["params"]

AccumulatorKeys == {"search_results", "timerange_articles", "filtered_article_ids", "article_ids"}

\* the tools whose successful steps, in the trace so far, wrote the key
WritersOf(key) ==
    {execution_results[k].tool :
        k \in {j \in 1..Len(execution_results) :
                  /\ execution_results[j].status = "success"
                  /\ key \in DOMAIN StoreResult(EmptyDict, execution_results[j].tool,
                                                execution_results[j].result)}}

\* C13: every Accumulator key has exactly one owning tool: in any plan execution no
\* key (search_results, timerange_articles, filtered_article_ids, article_ids) is
\* written by steps of two different tools.
C13_OneWriterPerKey ==
    \A key \in AccumulatorKeys : Cardinality(WritersOf(key)) <= 1

WithStatus(status) ==
    {k \in 1..Len(execution_results) : execution_results[k].status = status}

\* C15: every step recorded with status success contributes one formatted entry to
\* the synthesis prompt, whichever of the ten registered tools it ran.
C15_EverySuccessFormatted ==
    (mode = "research" /\ pc = "done") =>
        /\ Len(results_summary) = Cardinality(WithStatus("success"))
        /\ \A k \in WithStatus("success") :
               \E j \in 1..Len(results_summary) :
                   /\ results_summary[j].step = execution_results[k].step
                   /\ results_summary[j].tool = execution_results[k].tool

\* C16: no step recorded with status error contributes to the synthesis prompt, and
\* its record is still in the execution trace returned to the caller.
C16_ErrorsLeftOut ==
    [][(pc = "synth") =>
          /\ execution_results' = execution_results
          /\ \A k \in WithStatus("error") :
                 \A j \in 1..Len(results_summary') :
                     results_summary'[j].step # execution_results[k].step]_vars

C16_ErrorAmongSuccesses ==
    /\ mode = "research"
    /\ pc = "done"
    /\ WithStatus("error") # {}
    /\ results_summary # <<>>

ScenarioB == <<"Compare", "perspectives", "on", "climate", "policy">>

\* C17: with the LLM unavailable, the plan for 'Compare perspectives on climate
\* policy' is exactly [search_articles(query), analyze_perspectives(focus=query)],
\* and when the search finds only one article the analyze_perspectives step is
\* recorded with status error for having fewer than 2 articles.
C17_ScenarioB ==
    (mode = "research" /\ ~llm /\ user_query = ScenarioB /\ pc \notin {"idle", "plan"}) =>
        LET steps == Steps(plan) IN
        /\ Len(steps) = 2
        /\ \A k \in 1..2 : {"tool", "params"} \subseteq DOMAIN steps[k]
        /\ steps[1]["tool"] = "search_articles"
        /\ "query" \in DOMAIN steps[1]["params"]
        /\ steps[1]["params"]["query"] = TextV(user_query)
        /\ steps[2]["tool"] = "analyze_perspectives"
        /\ "focus" \in DOMAIN steps[2]["params"]
        /\ steps[2]["params"]["focus"] = TextV(user_query)
        /\ (/\ Len(execution_results) >= 2
            /\ execution_results[1].status = "success"
            /\ Len(execution_results[1].result.ids) = 1)
           => /\ execution_results[2].status = "error"
              /\ execution_results[2].result.error =
                     Err("Minimum 2 articles required for multi-perspective analysis", "")

C19_SessionsClosed ==
    outcome.open = 0

\* C20: get_trending returns a failure result when fewer than 3 articles fall in
\* the window, and a success result carrying the article count and the period when
\* at least 3 do and no collaborator raises, with and without an LLM credential.
C20_TrendingThreshold ==
    (outcome.tool = "get_trending") =>
        IF outcome.reply = "value" /\ outcome.count >= 3
        THEN /\ outcome.result.success
             /\ DOMAIN outcome.result.info = {"article_count", "period"}
             /\ outcome.result.info["article_count"] = outcome.count
             /\ outcome.result.info["period"] \in {24, 168}
        ELSE ~outcome.result.success

\* C21: an analyze_perspectives call returns a failure result whenever more than 10
\* article ids are supplied or fewer than 2 of them are ids of stored articles, and
\* the step is then recorded with status error; with 2 to 10 ids of stored articles
\* and no exception from a collaborator it returns success.
C21_PerspectivesBounds ==
    (outcome.tool = "analyze_perspectives" /\ mode = "execute" /\ Len(Steps(plan)) = 1) =>
        LET n == Len(Steps(plan)[1]["params"].article_ids.ids)
            record == execution_results[Len(execution_results)]
        IN  /\ (n > 10 \/ outcome.count < 2) =>
                   /\ outcome.result.present
                   /\ ~outcome.result.success
                   /\ record.status = "error"
            /\ (n <= 10 /\ outcome.count >= 2 /\ outcome.reply = "value") =>
                   /\ outcome.result.success
                   /\ record.status = "success"

C21_TenArticlesAnalysed ==
    /\ pc = "done"
    /\ outcome.tool = "analyze_perspectives"
    /\ Len(Steps(plan)[1]["params"].article_ids.ids) = 10
    /\ outcome.count = 10
    /\ outcome.result.success
    /\ execution_results[1].status = "success"

\* some stored tag other than  tag_id  has this name
NameOfAnother(tags, name, tag_id) ==
    \E t \in DOMAIN tags \ {tag_id} : tags[t].name = name

\* C22: after any sequence of tag create, update and delete requests no two stored
\* tags have the same name: a well-formed create, or update renaming a stored tag,
\* whose (stripped) name is the name of another stored tag is answered with status
\* 400 and leaves the tags table as it was.
C22_TagNamesUnique ==
    [][/\ \A a, b \in DOMAIN store'.tags :
              (store'.tags[a].name = store'.tags[b].name) => (a = b)
       /\ \A tag \in TagCreateBodies :
              (/\ CreateTag(tag)
               /\ NameNotEmpty(tag.name) /\ ValidateColor(tag.color)
               /\ NameOfAnother(store.tags, Strip(tag.name), 0))
              => (response'.status = 400 /\ store'.tags = store.tags)
       /\ \A tag_id \in DOMAIN store.tags, tag_update \in TagUpdateBodies :
              (/\ UpdateTag(tag_id, tag_update)
               /\ tag_update.name # None
               /\ NameNotEmpty(tag_update.name[1]) /\ ValidateColor(tag_update.color)
               /\ NameOfAnother(store.tags, Strip(tag_update.name[1]), tag_id))
              => (response'.status = 400 /\ store'.tags = store.tags)]_vars

C22_RenameRefused ==
    /\ response.op = "update_tag"
    /\ response.status = 400
    /\ Cardinality(DOMAIN store.tags) = 2
    /\ \E t \in DOMAIN store.tags : store.tags[t].description # None

\* C23: a well-formed update of a stored RSS feed whose tag_ids name a tag that does
\* not exist is answered with status 400 and leaves the feed's row (name,
\* description, active flag) and its tag associations as they were, whatever values
\* for name, description or is_active the same request carries.
C23_InvalidTagIdsRejected ==
    [][\/ /\ response'.status = 400
          /\ store'.feeds = store.feeds
          /\ store'.rss_feed_tags = store.rss_feed_tags
       \/ \A feed_id \in DOMAIN store.feeds, feed_update \in RSSFeedUpdateBodies :
              ~ (/\ response'.op = "update_rss_feed"
                 /\ OptionalNameNotEmpty(feed_update.name)
                 /\ feed_update.tag_ids # None
                 /\ \E k \in DOMAIN feed_update.tag_ids[1] :
                        feed_update.tag_ids[1][k] \notin DOMAIN store.tags
                 /\ UpdateRSSFeed(feed_id, feed_update))]_vars

C23_UpdateRefusedFeedKept ==
    /\ response = [op |-> "update_rss_feed", status |-> 400,
                   detail |-> "One or more tag IDs not found"]
    /\ 1 \in DOMAIN store.feeds
    /\ store.feeds[1].name = <<"b">>
    /\ store.feeds[1].is_active = 0
    /\ store.rss_feed_tags = {<<1, 1>>}
    /\ DOMAIN store.tags = {1}

\* C24: within one execute_plan call the Accumulator starts empty and its key set
\* never loses a key from one step to the next; a later execute_plan call starts
\* again from an empty Accumulator, whatever the previous call stored.
C24_AccumulatorPerCall ==
    [][/\ (pc \notin {"exec", "await"} /\ pc' = "exec") => (accumulated_data' = EmptyDict)
       /\ (pc \in {"exec", "await"}) =>
              (DOMAIN accumulated_data \subseteq DOMAIN accumulated_data')]_vars

C24_SecondCallStartsEmpty ==
    /\ earlier.ran
    /\ \E k \in 1..Len(earlier.trace) :
           /\ earlier.trace[k].tool \in {"search_articles", "get_by_timerange"}
           /\ earlier.trace[k].status = "success"
    /\ pc = "exec"
    /\ i = 1
    /\ accumulated_data = EmptyDict

\* the plan in hand is what the rule-based planner returned for user_query
RulePlanned ==
    /\ llm
    /\ mode = "research"
    /\ llm_reply.kind \in {"raise", "prose", "badjson", "badsteps"}
           \/ (llm_reply.kind = "json" /\ llm_reply.steps = <<>>)

\* place of a tool among the steps that may follow the retrieval step (0: none)
FollowerRank(tool) ==
    CASE tool = "analyze_perspectives" -> 1
      [] tool = "compare_articles" -> 2
      [] tool = "generate_summary" -> 3
      [] tool = "filter_by_source" -> 4
      [] tool = "extract_topics" -> 5
      [] OTHER -> 0

\* C25: every plan built by the rule-based planner has at least two steps; its first
\* step is the only retrieval step (get_by_timerange if the time-window pattern
\* matches, otherwise get_trending if a trending keyword is present, otherwise
\* search_articles), and the steps after it are a subsequence of analyze_perspectives,
\* compare_articles, generate_summary, filter_by_source, extract_topics in that
\* order, each tool at most once.
C25_RulePlanShape ==
    (RulePlanned /\ pc = "planned") =>
        LET steps == Steps(plan)
            ql == LowerWords(user_query)
        IN  /\ Len(steps) >= 2
            /\ steps[1]["tool"] = (IF TimeMatch(ql) # 0 THEN "get_by_timerange"
                                   ELSE IF WantsTrending(ql) THEN "get_trending"
                                   ELSE "search_articles")
            /\ \A k \in 2..Len(steps) : FollowerRank(steps[k]["tool"]) > 0
            /\ \A k \in 2..(Len(steps) - 1) :
                   FollowerRank(steps[k]["tool"]) < FollowerRank(steps[k + 1]["tool"])

C25_FourStepRulePlan ==
    /\ RulePlanned
    /\ pc = "planned"
    /\ Len(Steps(plan)) = 4
    /\ Steps(plan)[1]["tool"] = "search_articles"
    /\ Steps(plan)[4]["tool"] = "extract_topics"

\* C26: for every query containing (past|last) N (hour|day|week|month)s?, the
\* rule-based planner returns a plan whose first step is get_by_timerange with
\* end_date the planning instant and start_date that instant minus N hours, N days,
\* N weeks or 30*N days, according to the unit.
C26_TimeWindowFirstStep ==
    (RulePlanned /\ pc \in {"planned", "raised"}
        /\ TimeMatch(LowerWords(user_query)) # 0) =>
        LET ql == LowerWords(user_query)
            j == TimeMatch(ql)
            number == NumberValue(ql[j + 1])
            unit == MatchedUnit(ql[j + 2])
            hours == CASE unit = "hour" -> number
                       [] unit = "day" -> 24 * number
                       [] unit = "week" -> 7 * 24 * number
                       [] unit = "month" -> 30 * 24 * number
        IN  /\ pc = "planned"
            /\ Steps(plan) # <<>>
            /\ Steps(plan)[1]["tool"] = "get_by_timerange"
            /\ Steps(plan)[1]["params"]["end_date"] = IsoV(NowHours)
            /\ Steps(plan)[1]["params"]["start_date"] = IsoV(NowHours - hours)

\* C27: when the LLM response parses to a JSON object with a non-empty list of step
\* objects, the plan has one step per raw step in the same order, each step number
\* is the step's 1-based position whatever number the LLM gave, and each step's
\* params are the raw parameters without exactly those whose value is a string
\* containing 'results_from_step' in any letter case.
C27_ParsedPlanFollowsRaw ==
    (llm /\ mode = "research" /\ pc = "planned"
        /\ llm_reply.kind = "json" /\ llm_reply.steps # <<>>) =>
        LET raw == llm_reply.steps
            steps == Steps(plan)
        IN  /\ Len(steps) = Len(raw)
            /\ \A k \in 1..Len(raw) :
                   LET given == RawParams(raw[k])
                       kept == {x \in DOMAIN given :
                                   ~(given[x].k = "str" /\ given[x].s \in PlaceholderTexts)}
                   IN  /\ steps[k]["step"] = k
                       /\ steps[k]["tool"] = RawTool(raw[k])
                       /\ DOMAIN steps[k]["params"] = kept
                       /\ \A x \in kept : steps[k]["params"][x] = given[x]

C27_RenumberedAndCleaned ==
    /\ llm /\ mode = "research" /\ pc = "planned"
    /\ llm_reply.kind = "json"
    /\ Len(llm_reply.steps) = 3
    /\ llm_reply.steps[1]["step_number"] = 7
    /\ Steps(plan)[1]["step"] = 1
    /\ "article_id" \in DOMAIN llm_reply.steps[3]["parameters"]
    /\ DOMAIN Steps(plan)[3]["params"] = {"type"}

\* C28: relative-time parsing returns every string that is not a recognized
\* relative expression exactly as it was given, character for character: after the
\* executor has converted the dates of a step, a start_date that was an absolute
\* timestamp or another unrecognized string is the value the step gave.
C28_UnrecognizedUnchanged ==
    [][(/\ pc = "exec"
        /\ i <= Len(Steps(plan))
        /\ Steps(plan)[i]["tool"] = "generate_summary"
        /\ "start_date" \in DOMAIN Steps(plan)[i]["params"]
        /\ Steps(plan)[i]["params"]["start_date"].k \in {"iso", "str"})
       => (Steps(plan')[i]["params"]["start_date"] = Steps(plan)[i]["params"]["start_date"])]_vars

\* C29: a step changes the Accumulator only if the record appended for it has
\* status success: every step whose record has status error leaves the Accumulator
\* exactly as it was before the step.
C29_ErrorStepKeepsAccumulator ==
    [][(/\ Len(execution_results') = Len(execution_results) + 1
        /\ execution_results'[Len(execution_results')].status = "error")
       => (accumulated_data' = accumulated_data)]_vars

\* C30: in a plan built by the rule-based planner, whenever the first step
\* succeeded with at least two articles, no later step is recorded with status
\* error because the call lacked a required parameter.
C30_RuleFollowersSupplied ==
    (/\ RulePlanned
     /\ Len(execution_results) >= 1
     /\ execution_results[1].status = "success"
     /\ Len(execution_results[1].result.ids) >= 2)
    => \A k \in 2..Len(execution_results) :
           ~(/\ execution_results[k].error = Err("TypeError", "")
             /\ ~(RequiredParams(execution_results[k].tool)
                      \subseteq DOMAIN StepParams(Steps(plan)[k])))

=============================================================================
